---------------------------- MODULE Spec2Model ----------------------------
(***************************************************************************)
(* MarkBear (src-tauri/src/main.rs): the conversion commands               *)
(* import_document / export_document, the blocking worker they spawn, the  *)
(* format adapters of `mod convert` they dispatch to, the AppState the     *)
(* interactive commands keep, and the Markdown codec of `mod convert`.     *)
(***************************************************************************)
EXTENDS Integers, Sequences, FiniteSets, TLC

(***************************************************************************)
(* Bounds of the model.                                                    *)
(***************************************************************************)
\* conversion calls of a behaviour of Spec and FairSpec (any tag, any path)
NumCalls == 1

\* conversion calls of a behaviour of SpecConc (two tags, one path)
NumConc == 2

\* lines of a Markdown text of SpecCodec
MaxLines == 3

\* characters of a language code of SpecLang
MaxCodeLen == 4

\* calls of add_recent_file of a behaviour of SpecRecent
MaxAdds == 12

\* add_recent_file: recent.truncate(10)
MaxRecent == 10

\* paths put into the pending queue, and paths waiting for their event, of a
\* behaviour of SpecPending
MaxQueued == 4

\* calls of take_pending_open_files of a behaviour of SpecPending
MaxTakes == 3

\* entries of the walk of SpecSearch
MaxEntries == 2

\* entries of the directory of SpecList
MaxDirEntries == 3

\* search_in_files: const MAX_RESULTS: usize = 500
MAX_RESULTS == 500

(***************************************************************************)
(* Inputs.                                                                 *)
(***************************************************************************)
\* the four arms of the match in import_document / export_document
SupportedTags == {"docx", "xlsx", "pdf", "pptx"}

\* tags a caller may send: the four supported ones and three others
Tags == SupportedTags \cup {"rtf", "", "DOCX"}

\* the tags of the concurrent specification: one supported, one not
ConcTags == {"docx", "rtf"}

Directions == {"import", "export"}

\* PathA: its parent directory exists and a docx file is already there.
\* PathB: neither the file nor its parent directories exist.
PathA == "/docs/a"

PathB == "/new/sub/b"

Paths == {PathA, PathB}

\* the directories above a path (PathBuf::parent and its ancestors)
Ancestors(p) == IF p = PathA THEN {"/docs"} ELSE {"/new", "/new/sub"}

\* Markdown text a caller exports; each call sends its own text
Content(c) == "md" \o ToString(c)

\* an import carries no Markdown text
NoContent == ""

(***************************************************************************)
(* The file system the adapters work on.  A file is a container of some    *)
(* format holding a text, complete or half-written; NoFile is "no file at  *)
(* this path".                                                             *)
(***************************************************************************)
NoFile == [fmt |-> "none", text |-> "", complete |-> FALSE]

Container(t, text) == [fmt |-> t, text |-> text, complete |-> TRUE]

Partial(t, text) == [fmt |-> t, text |-> text, complete |-> FALSE]

OldText == "md0"

InitFiles == [p \in Paths |-> IF p = PathA THEN Container("docx", OldText) ELSE NoFile]

InitDirs == {"/docs"}

(***************************************************************************)
(* Results: Result<_, String>.  val holds the Ok value (the Markdown text  *)
(* of an import, nothing for an export) or the words of the error message. *)
(***************************************************************************)
Ok(v) == [ok |-> TRUE, val |-> v]

Err(msg) == [ok |-> FALSE, val |-> msg]

NoResult == [ok |-> FALSE, val |-> <<>>]

\* format!("Unsupported import format: {}", other) / "Unsupported export format: {}"
UnsupportedMsg(d, other) == <<"Unsupported", d, "format:", other>>

\* format!("Task error: {}", e), e the JoinError of a panicked blocking task
TaskErrorMsg == <<"Task", "error:", "task", "panicked">>

\* String::from(ConversionError): the error kind with the call's context
ConversionErrorMsg(kind, d, fmt, p) == <<kind, d, fmt, p>>

(***************************************************************************)
(* The settings file: absent (first launch), present but unreadable or     *)
(* not a UserSettings in JSON, or a UserSettings with its language; or the *)
(* config directory itself cannot be resolved or created.                  *)
(***************************************************************************)
NoSettings == [state |-> "absent", language |-> ""]

CorruptSettings == [state |-> "corrupt", language |-> ""]

NoConfigDir == [state |-> "unavailable", language |-> ""]

\* serde_json::to_string_pretty(UserSettings { language })
Stored(l) == [state |-> "valid", language |-> l]

\* languages a settings file may hold: the two the application writes and
\* one written by hand
StoredLanguages == {"en", "zh", "fr"}

SettingsFiles ==
    {NoSettings, CorruptSettings, NoConfigDir} \cup {Stored(l) : l \in StoredLanguages}

\* no command was answered yet
NoCmd == [cmd |-> "", arg |-> <<>>, res |-> NoResult]

Answer(cmd, arg, res) == [cmd |-> cmd, arg |-> arg, res |-> res]

(***************************************************************************)
(* State.                                                                  *)
(***************************************************************************)
VARIABLES
    \* AppState (main.rs 17-21)
    recent_files, pending_open_files, language,
    \* every lock() of an AppState mutex, as <<command, field>>
    stateAccess,
    \* events emitted to the frontend (app.emit)
    emitted,
    \* the call the interactive (main) thread is blocked on, 0 when it is free
    mainBusy,
    \* per conversion call: position, arguments, caller's interest
    pc, dir, tag, path, abandoned,
    \* per call: what the blocking closure returned, what the caller received,
    \* how many results it received
    workerOut, result, deliveries,
    \* per call: the adapter invocations made and the paths touched for it
    invoked, touched,
    \* per call: the file at its path when the call was made, and the file
    \* the import adapter read
    fileAtCall, fileSeen,
    \* the file system: files by path, existing directories, each call's temp file
    files, dirs, tmp,
    \* the Markdown codec at work: the text typed so far, its IR, the text
    \* serialised from the IR, the IR parsed back, and how far this has got
    doc, ir, out, back, stage,
    \* the settings file (settings.json in the config directory), the
    \* language the application menu was built for, and the last command
    \* with its answer
    settings, menu, lastCmd,
    \* normalize_language at work: the code typed so far, its normalised
    \* form, and the normalised form of that
    code, normal, again,
    \* what was asked of AppState so far: the paths given to add_recent_file,
    \* the paths put into the pending queue, the answers of
    \* take_pending_open_files, each in the order of the calls
    added, inserted, taken,
    \* the paths queue_open_files has still to emit "open-file" for
    emitting,
    \* search_in_files at work: the entries the walk of the root yields, and
    \* the answer
    walk, hits,
    \* list_directory at work: the entries read_dir yields, and the answer
    entries, listing

appVars == <<recent_files, pending_open_files, language, stateAccess, emitted>>

\* the conversion calls of the behaviour
Calls == DOMAIN pc

callVars == <<pc, dir, tag, path, abandoned>>

outVars == <<workerOut, result, deliveries>>

logVars == <<invoked, touched, fileAtCall, fileSeen>>

fsVars == <<files, dirs, tmp>>

codecVars == <<doc, ir, out, back, stage>>

convVars == <<appVars, mainBusy, callVars, outVars, logVars, fsVars>>

deskVars == <<settings, menu, lastCmd>>

langVars == <<code, normal, again>>

histVars == <<added, inserted, taken, emitting>>

searchVars == <<walk, hits>>

listVars == <<entries, listing>>

fileVars == <<searchVars, listVars>>

vars == <<appVars, mainBusy, callVars, outVars, logVars, fsVars, codecVars, deskVars,
          langVars, histVars, fileVars>>

content(c) == IF dir[c] = "export" THEN Content(c) ELSE NoContent

InFlight(c) == pc[c] \in {"spawned", "running", "writing", "returned", "panicked"}

OnWorker(c) == pc[c] \in {"running", "writing"}

InitCalls(n) ==
    /\ recent_files = <<>>
    /\ pending_open_files = <<>>
    /\ language = "en"
    /\ stateAccess = {}
    /\ emitted = {}
    /\ mainBusy = 0
    /\ pc = [c \in 1 .. n |-> "idle"]
    /\ dir = [c \in 1 .. n |-> "import"]
    /\ tag = [c \in 1 .. n |-> ""]
    /\ path = [c \in 1 .. n |-> PathA]
    /\ abandoned = [c \in 1 .. n |-> FALSE]
    /\ workerOut = [c \in 1 .. n |-> NoResult]
    /\ result = [c \in 1 .. n |-> NoResult]
    /\ deliveries = [c \in 1 .. n |-> 0]
    /\ invoked = [c \in 1 .. n |-> <<>>]
    /\ touched = [c \in 1 .. n |-> {}]
    /\ fileAtCall = [c \in 1 .. n |-> NoFile]
    /\ fileSeen = [c \in 1 .. n |-> NoFile]
    /\ files = InitFiles
    /\ dirs = InitDirs
    /\ tmp = [c \in 1 .. n |-> NoFile]
    /\ doc = <<>>
    /\ ir = <<>>
    /\ out = <<>>
    /\ back = <<>>
    /\ stage = "text"
    /\ settings = NoSettings
    /\ menu = "en"
    /\ lastCmd = NoCmd
    /\ code = <<>>
    /\ normal = ""
    /\ again = ""
    /\ added = <<>>
    /\ inserted = <<>>
    /\ taken = <<>>
    /\ emitting = <<>>
    /\ walk = <<>>
    /\ hits = NoCmd
    /\ entries = <<>>
    /\ listing = NoCmd

(***************************************************************************)
(* Dispatch: the match on format.as_str() inside the spawn_blocking        *)
(* closure.  The value is the adapter function the arm calls, or           *)
(* "unsupported" for the `other` arm.                                      *)
(***************************************************************************)
\* a dispatch that lower-cases the tag before the match
ImportArm_lowercased(format) ==
    CASE format \in {"docx", "DOCX"} -> "docx_to_markdown"
      [] format = "xlsx" -> "xlsx_to_markdown"
      [] format = "pdf"  -> "pdf_to_markdown"
      [] format = "pptx" -> "pptx_to_markdown"
      [] OTHER -> "unsupported"

ImportArm(format) ==
    CASE format = "docx" -> "docx_to_markdown"
      [] format = "xlsx" -> "xlsx_to_markdown"
      [] format = "pdf"  -> "pdf_to_markdown"
      [] format = "pptx" -> "pptx_to_markdown"
      [] OTHER -> "unsupported"

\* a dispatch whose pptx arm calls the pdf writer
ExportArm_swapped(format) ==
    CASE format = "docx" -> "markdown_to_docx"
      [] format = "xlsx" -> "markdown_to_xlsx"
      [] format = "pdf"  -> "markdown_to_pdf"
      [] format = "pptx" -> "markdown_to_pdf"
      [] OTHER -> "unsupported"

ExportArm(format) ==
    CASE format = "docx" -> "markdown_to_docx"
      [] format = "xlsx" -> "markdown_to_xlsx"
      [] format = "pdf"  -> "markdown_to_pdf"
      [] format = "pptx" -> "markdown_to_pptx"
      [] OTHER -> "unsupported"

Arm(c) == IF dir[c] = "import" THEN ImportArm(tag[c]) ELSE ExportArm(tag[c])

\* the format an adapter function of mod convert works on
AdapterFormat(fn) ==
    CASE fn \in {"docx_to_markdown", "markdown_to_docx"} -> "docx"
      [] fn \in {"xlsx_to_markdown", "markdown_to_xlsx"} -> "xlsx"
      [] fn \in {"pdf_to_markdown", "markdown_to_pdf"} -> "pdf"
      [] fn \in {"pptx_to_markdown", "markdown_to_pptx"} -> "pptx"
      [] OTHER -> "none"

\* the arguments a dispatch arm passes to its adapter: (&path) or (&content, &path)
AdapterArgs(c) == [fn |-> Arm(c), path |-> path[c], content |-> content(c)]

(***************************************************************************)
(* The commands.  An async command runs on the async runtime; it queues    *)
(* its closure on the blocking pool and awaits the JoinHandle.             *)
(***************************************************************************)
\* the conversion run by the thread that serves the interactive context
RunOnCaller(c) ==
    /\ pc' = [pc EXCEPT ![c] = "spawned"]
    /\ mainBusy' = c

\* tokio::task::spawn_blocking(move || ...): the closure is queued for a
\* blocking-pool thread; the interactive thread is not involved
SpawnBlocking(c) ==
    /\ pc' = [pc EXCEPT ![c] = "spawned"]
    /\ UNCHANGED mainBusy

\* an export command that also records its destination in the recent files
ExportDocument_recent(c, p, format) ==
    /\ pc[c] = "idle"
    /\ \A b \in Calls : b < c => pc[b] # "idle"
    /\ dir' = [dir EXCEPT ![c] = "export"]
    /\ tag' = [tag EXCEPT ![c] = format]
    /\ path' = [path EXCEPT ![c] = p]
    /\ fileAtCall' = [fileAtCall EXCEPT ![c] = files[p]]
    /\ recent_files' = <<p>> \o SelectSeq(recent_files, LAMBDA q : q # p)
    /\ stateAccess' = stateAccess \cup {<<"export_document", "recent_files">>}
    /\ pc' = [pc EXCEPT ![c] = "spawned"]
    /\ UNCHANGED <<codecVars, deskVars, langVars, histVars, fileVars, pending_open_files, language, emitted, mainBusy, abandoned, outVars,
                   invoked, touched, fileSeen, fsVars>>

\* import_document(path, format) is called
ImportDocument(c, p, format) ==
    /\ pc[c] = "idle"
    /\ \A b \in Calls : b < c => pc[b] # "idle"
    /\ dir' = [dir EXCEPT ![c] = "import"]
    /\ tag' = [tag EXCEPT ![c] = format]
    /\ path' = [path EXCEPT ![c] = p]
    /\ fileAtCall' = [fileAtCall EXCEPT ![c] = files[p]]
    /\ SpawnBlocking(c)
    /\ UNCHANGED <<codecVars, deskVars, langVars, histVars, fileVars, appVars, abandoned, outVars, invoked, touched, fileSeen, fsVars>>

\* export_document(content, path, format) is called
ExportDocument(c, p, format) ==
    /\ pc[c] = "idle"
    /\ \A b \in Calls : b < c => pc[b] # "idle"
    /\ dir' = [dir EXCEPT ![c] = "export"]
    /\ tag' = [tag EXCEPT ![c] = format]
    /\ path' = [path EXCEPT ![c] = p]
    /\ fileAtCall' = [fileAtCall EXCEPT ![c] = files[p]]
    /\ SpawnBlocking(c)
    /\ UNCHANGED <<codecVars, deskVars, langVars, histVars, fileVars, appVars, abandoned, outVars, invoked, touched, fileSeen, fsVars>>

\* a closure that checks a cancellation flag before it calls the adapter
WorkerDispatch_cancellable(c) ==
    /\ pc[c] = "spawned"
    /\ IF Arm(c) = "unsupported" \/ abandoned[c]
         THEN /\ workerOut' = [workerOut EXCEPT ![c] = Err(UnsupportedMsg(dir[c], tag[c]))]
              /\ pc' = [pc EXCEPT ![c] = "returned"]
              /\ UNCHANGED invoked
         ELSE /\ invoked' = [invoked EXCEPT ![c] = Append(@, AdapterArgs(c))]
              /\ pc' = [pc EXCEPT ![c] = "running"]
              /\ UNCHANGED workerOut
    /\ UNCHANGED <<codecVars, deskVars, langVars, histVars, fileVars, appVars, mainBusy, dir, tag, path, abandoned, result, deliveries,
                   touched, fileAtCall, fileSeen, fsVars>>

\* a blocking-pool thread starts the closure: the match picks an arm; a
\* supported tag calls its adapter, any other tag returns the error at once
WorkerDispatch(c) ==
    /\ pc[c] = "spawned"
    /\ IF Arm(c) = "unsupported"
         THEN /\ workerOut' = [workerOut EXCEPT ![c] = Err(UnsupportedMsg(dir[c], tag[c]))]
              /\ pc' = [pc EXCEPT ![c] = "returned"]
              /\ UNCHANGED invoked
         ELSE /\ invoked' = [invoked EXCEPT ![c] = Append(@, AdapterArgs(c))]
              /\ pc' = [pc EXCEPT ![c] = "running"]
              /\ UNCHANGED workerOut
    /\ UNCHANGED <<codecVars, deskVars, langVars, histVars, fileVars, appVars, mainBusy, dir, tag, path, abandoned, result, deliveries,
                   touched, fileAtCall, fileSeen, fsVars>>

\* the adapter the call is running, and its arguments
Running(c) == invoked[c][Len(invoked[c])]

(***************************************************************************)
(* The adapters of mod convert.                                            *)
(***************************************************************************)
\* x_to_markdown(path): read the container and turn it into Markdown
ImportOutcome(fn, p, f) ==
    IF f = NoFile \/ ~f.complete \/ f.fmt # AdapterFormat(fn)
      THEN Err(ConversionErrorMsg("SourceUnreadable", "import", AdapterFormat(fn), p))
      ELSE Ok(<<f.text>>)

ImportRun(c) ==
    /\ pc[c] = "running"
    /\ dir[c] = "import"
    /\ LET a == Running(c) IN
         /\ workerOut' = [workerOut EXCEPT ![c] = ImportOutcome(a.fn, a.path, files[a.path])]
         /\ fileSeen' = [fileSeen EXCEPT ![c] = files[a.path]]
         /\ touched' = [touched EXCEPT ![c] = @ \cup {a.path}]
    /\ pc' = [pc EXCEPT ![c] = "returned"]
    /\ UNCHANGED <<codecVars, deskVars, langVars, histVars, fileVars, appVars, mainBusy, dir, tag, path, abandoned, result, deliveries,
                   invoked, fileAtCall, fsVars>>

\* a writer that starts writing the destination itself, in place
ExportWriteInPlace(c) ==
    /\ pc[c] = "running"
    /\ dir[c] = "export"
    /\ LET a == Running(c) IN
         /\ dirs' = dirs \cup Ancestors(a.path)
         /\ files' = [files EXCEPT ![a.path] = Partial(AdapterFormat(a.fn), a.content)]
         /\ touched' = [touched EXCEPT ![c] = @ \cup Ancestors(a.path) \cup {a.path}]
    /\ pc' = [pc EXCEPT ![c] = "writing"]
    /\ UNCHANGED <<codecVars, deskVars, langVars, histVars, fileVars, appVars, mainBusy, dir, tag, path, abandoned, outVars,
                   invoked, fileAtCall, fileSeen, tmp>>

\* a writer that does not create the parent directories
ExportWriteNoMkdir(c) ==
    /\ pc[c] = "running"
    /\ dir[c] = "export"
    /\ LET a == Running(c) IN
         tmp' = [tmp EXCEPT ![c] = Partial(AdapterFormat(a.fn), a.content)]
    /\ pc' = [pc EXCEPT ![c] = "writing"]
    /\ UNCHANGED <<codecVars, deskVars, langVars, histVars, fileVars, appVars, mainBusy, dir, tag, path, abandoned, outVars,
                   logVars, files, dirs>>

\* markdown_to_x(content, path), first part: create the missing parent
\* directories and start writing the output to a temporary file
ExportWriteTemp(c) ==
    /\ pc[c] = "running"
    /\ dir[c] = "export"
    /\ LET a == Running(c) IN
         /\ dirs' = dirs \cup Ancestors(a.path)
         /\ tmp' = [tmp EXCEPT ![c] = Partial(AdapterFormat(a.fn), a.content)]
         /\ touched' = [touched EXCEPT ![c] = @ \cup Ancestors(a.path)]
    /\ pc' = [pc EXCEPT ![c] = "writing"]
    /\ UNCHANGED <<codecVars, deskVars, langVars, histVars, fileVars, appVars, mainBusy, dir, tag, path, abandoned, outVars,
                   invoked, fileAtCall, fileSeen, files>>

\* second part: finish the temporary file and move it onto the destination
ExportCommit(c) ==
    /\ pc[c] = "writing"
    /\ LET a == Running(c) IN
         /\ files' = [files EXCEPT ![a.path] = Container(AdapterFormat(a.fn), a.content)]
         /\ touched' = [touched EXCEPT ![c] = @ \cup {a.path}]
    /\ tmp' = [tmp EXCEPT ![c] = NoFile]
    /\ workerOut' = [workerOut EXCEPT ![c] = Ok(<<>>)]
    /\ pc' = [pc EXCEPT ![c] = "returned"]
    /\ UNCHANGED <<codecVars, deskVars, langVars, histVars, fileVars, appVars, mainBusy, dir, tag, path, abandoned, result, deliveries,
                   invoked, fileAtCall, fileSeen, dirs>>

\* the write fails (disk full, permission): the temporary file is removed
\* and the adapter returns WriteFailed
ExportWriteFail(c) ==
    /\ pc[c] \in {"running", "writing"}
    /\ dir[c] = "export"
    /\ LET a == Running(c) IN
         workerOut' = [workerOut EXCEPT ![c] =
             Err(ConversionErrorMsg("WriteFailed", "export", AdapterFormat(a.fn), a.path))]
    /\ tmp' = [tmp EXCEPT ![c] = NoFile]
    /\ pc' = [pc EXCEPT ![c] = "returned"]
    /\ UNCHANGED <<codecVars, deskVars, langVars, histVars, fileVars, appVars, mainBusy, dir, tag, path, abandoned, result, deliveries,
                   logVars, files, dirs>>

\* the adapter panics: the blocking task ends without a value
WorkerPanic(c) ==
    /\ OnWorker(c)
    /\ pc' = [pc EXCEPT ![c] = "panicked"]
    /\ UNCHANGED <<codecVars, deskVars, langVars, histVars, fileVars, appVars, mainBusy, dir, tag, path, abandoned, outVars, logVars, fsVars>>

(***************************************************************************)
(* .await on the JoinHandle, .map_err(|e| format!("Task error: {}", e))?   *)
(* and the return of the command's value to the caller.                    *)
(***************************************************************************)
JoinResult(c) == IF pc[c] = "panicked" THEN Err(TaskErrorMsg) ELSE workerOut[c]

\* an await that unwraps the JoinHandle: a panicked task is never answered
Await_unwrap(c) ==
    /\ pc[c] = "returned"
    /\ result' = [result EXCEPT ![c] = workerOut[c]]
    /\ deliveries' = [deliveries EXCEPT ![c] = @ + 1]
    /\ pc' = [pc EXCEPT ![c] = "done"]
    /\ mainBusy' = IF mainBusy = c THEN 0 ELSE mainBusy
    /\ UNCHANGED <<codecVars, deskVars, langVars, histVars, fileVars, appVars, dir, tag, path, abandoned, workerOut, logVars, fsVars>>

Await(c) ==
    /\ pc[c] \in {"returned", "panicked"}
    /\ result' = [result EXCEPT ![c] = JoinResult(c)]
    /\ deliveries' = [deliveries EXCEPT ![c] = @ + 1]
    /\ pc' = [pc EXCEPT ![c] = "done"]
    /\ mainBusy' = IF mainBusy = c THEN 0 ELSE mainBusy
    /\ UNCHANGED <<codecVars, deskVars, langVars, histVars, fileVars, appVars, dir, tag, path, abandoned, workerOut, logVars, fsVars>>

\* the caller stops waiting for a call still in flight; nothing in the
\* commands observes this
Abandon(c) ==
    /\ InFlight(c)
    /\ ~abandoned[c]
    /\ abandoned' = [abandoned EXCEPT ![c] = TRUE]
    /\ UNCHANGED <<codecVars, deskVars, langVars, histVars, fileVars, appVars, mainBusy, pc, dir, tag, path, outVars, logVars, fsVars>>

(***************************************************************************)
(* Commands and menu events of the interactive thread.                     *)
(***************************************************************************)
\* a language code is a sequence of characters
Lower(ch) ==
    CASE ch = "Z" -> "z" [] ch = "H" -> "h" [] ch = "E" -> "e" [] ch = "N" -> "n"
      [] ch = "T" -> "t" [] ch = "W" -> "w" [] OTHER -> ch

\* a lower-casing that leaves every character as it is
to_lowercase_identity(s) == s

to_lowercase(s) == [i \in 1 .. Len(s) |-> Lower(s[i])]

\* s.split('-').next(): the text before the first '-', all of s without one
FirstPart(s) ==
    IF \E i \in 1 .. Len(s) : s[i] = "-"
      THEN SubSeq(s, 1, (CHOOSE i \in 1 .. Len(s) :
                            s[i] = "-" /\ \A j \in 1 .. i - 1 : s[j] # "-") - 1)
      ELSE s

normalize_language(lang) ==
    IF FirstPart(to_lowercase(lang)) = <<"z", "h">> THEN "zh" ELSE "en"

\* language codes the frontend sends
LangCodes == {<<"e", "n">>, <<"z", "h">>, <<"Z", "H", "-", "T", "W">>}

\* the characters of a normalised code
Chars(l) == IF l = "zh" THEN <<"z", "h">> ELSE <<"e", "n">>

\* the characters a code is typed from
CodeChars == {"z", "h", "Z", "H", "e", "n", "-"}

TypeChar(ch) ==
    /\ normal = ""
    /\ Len(code) < MaxCodeLen
    /\ code' = Append(code, ch)
    /\ UNCHANGED <<normal, again, convVars, codecVars, deskVars, histVars, fileVars>>

\* normalize_language(&code)
Normalize ==
    /\ normal = ""
    /\ normal' = normalize_language(code)
    /\ UNCHANGED <<code, again, convVars, codecVars, deskVars, histVars, fileVars>>

\* normalize_language(&normalize_language(&code))
NormalizeAgain ==
    /\ normal # ""
    /\ again = ""
    /\ again' = normalize_language(Chars(normal))
    /\ UNCHANGED <<code, normal, convVars, codecVars, deskVars, histVars, fileVars>>

\* a set_language that rebuilds the menu in the new language as well
SetLanguage_with_menu(lang) ==
    /\ mainBusy = 0
    /\ language' = normalize_language(lang)
    /\ menu' = normalize_language(lang)
    /\ stateAccess' = stateAccess \cup {<<"set_language", "language">>}
    /\ UNCHANGED <<codecVars, settings, lastCmd, langVars, histVars, fileVars, recent_files, pending_open_files, emitted, mainBusy, callVars,
                   outVars, logVars, fsVars>>

\* set_language(lang): lock AppState.language and store the normalised code
SetLanguage(lang) ==
    /\ mainBusy = 0
    /\ language' = normalize_language(lang)
    /\ stateAccess' = stateAccess \cup {<<"set_language", "language">>}
    /\ UNCHANGED <<codecVars, deskVars, langVars, histVars, fileVars, recent_files, pending_open_files, emitted, mainBusy, callVars,
                   outVars, logVars, fsVars>>

\* on_menu_event, id "file_new": emit "menu-new-file"
MenuFileNew ==
    /\ mainBusy = 0
    /\ emitted' = emitted \cup {"menu-new-file"}
    /\ UNCHANGED <<codecVars, deskVars, langVars, histVars, fileVars, recent_files, pending_open_files, language, stateAccess, mainBusy,
                   callVars, outVars, logVars, fsVars>>

(***************************************************************************)
(* The language preference: the settings file, the start of the            *)
(* application and the commands and menu events that write the file.       *)
(* lastCmd is the last of them, with its argument and its answer.          *)
(***************************************************************************)
\* UserSettings::load(): Ok(Some(settings)), Ok(None) or Err
load(f) ==
    CASE f.state = "unavailable" -> Err(<<"Failed", "to", "create", "config", "directory">>)
      [] f.state = "corrupt" -> Err(<<"Failed", "to", "parse", "settings">>)
      [] f.state = "valid" -> Ok(<<f.language>>)
      [] OTHER -> Ok(<<>>)

\* tauri_plugin_os::locale(): None, or Some(locale_str)
NoLocale == <<>>

Locales == {NoLocale} \cup {<<lc>> : lc \in LangCodes \cup {<<"f", "r">>}}

\* the inner match of main: the normalised system locale, "en" without one
FromLocale(loc) == IF loc = NoLocale THEN "en" ELSE normalize_language(loc[1])

\* a start that asks the system locale first
default_language_locale_first(f, loc) ==
    IF loc # NoLocale THEN normalize_language(loc[1])
    ELSE IF load(f).ok /\ load(f).val # <<>> THEN load(f).val[1]
    ELSE "en"

\* main: let default_language = match UserSettings::load() { ... }
default_language(f, loc) ==
    IF load(f).ok
      THEN (IF load(f).val # <<>> THEN load(f).val[1] ELSE FromLocale(loc))
      ELSE FromLocale(loc)

\* the name a start is recorded under: it tells what was answered last
\* before the application was started
Started(cmd) ==
    IF cmd \in {"", "edit", "lang_en", "lang_zh", "save_language_preference"}
      THEN "main after " \o cmd
      ELSE cmd

\* main: the process starts (without file arguments) with the system locale
\* loc; AppState::new(default_language) and the menu built for it
Launch(loc) ==
    /\ mainBusy = 0
    /\ \A c \in Calls : ~InFlight(c)
    /\ language' = default_language(settings, loc)
    /\ menu' = default_language(settings, loc)
    /\ recent_files' = <<>>
    /\ pending_open_files' = <<>>
    /\ lastCmd' = Answer(Started(lastCmd.cmd), loc,
                         Ok(<<default_language(settings, loc)>>))
    /\ added' = <<>>
    /\ inserted' = <<>>
    /\ taken' = <<>>
    /\ emitting' = <<>>
    /\ UNCHANGED <<settings, stateAccess, emitted, mainBusy, callVars, outVars, logVars,
                   fsVars, codecVars, langVars, fileVars>>

\* a write that reports success and leaves the file as it was
Written_lost(f, l, wrote) == {f}

\* what fs::write leaves of the file f when writing the language l: the new
\* settings when it succeeds, the old file or a truncated one when it fails
Written(f, l, wrote) == IF wrote THEN {Stored(l)} ELSE {f, CorruptSettings}

\* save_language_preference(lang): load the settings (an error ends the
\* command), store the normalised language, write the file (an error ends
\* the command), then lock AppState.language and set it
SavePreference(lang) ==
    /\ mainBusy = 0
    /\ IF ~load(settings).ok
         THEN /\ lastCmd' = Answer("save_language_preference", lang, load(settings))
              /\ UNCHANGED <<settings, language, stateAccess>>
         ELSE \E wrote \in BOOLEAN :
                /\ settings' \in Written(settings, normalize_language(lang), wrote)
                /\ IF wrote
                     THEN /\ language' = normalize_language(lang)
                          /\ stateAccess' = stateAccess
                                \cup {<<"save_language_preference", "language">>}
                          /\ lastCmd' = Answer("save_language_preference", lang, Ok(<<>>))
                     ELSE /\ lastCmd' = Answer("save_language_preference", lang,
                                    Err(<<"Failed", "to", "write", "settings", "file">>))
                          /\ UNCHANGED <<language, stateAccess>>
    /\ UNCHANGED <<menu, recent_files, pending_open_files, emitted, mainBusy, callVars,
                   outVars, logVars, fsVars, codecVars, langVars, histVars, fileVars>>

\* on_menu_event, id "lang_en" / "lang_zh": save_language_to_storage (its
\* error is only printed), rebuild the menu (when create_app_menu succeeds),
\* set AppState.language, emit "language-changed"
MenuLanguage(l) ==
    /\ mainBusy = 0
    /\ IF ~load(settings).ok
         THEN UNCHANGED settings
         ELSE \E wrote \in BOOLEAN : settings' \in Written(settings, l, wrote)
    /\ \E built \in BOOLEAN : menu' = IF built THEN l ELSE menu
    /\ language' = l
    /\ stateAccess' = stateAccess \cup {<<"on_menu_event", "language">>}
    /\ emitted' = emitted \cup {"language-changed"}
    /\ lastCmd' = Answer("lang_" \o l, <<>>, Ok(<<>>))
    /\ UNCHANGED <<recent_files, pending_open_files, mainBusy, callVars, outVars, logVars,
                   fsVars, codecVars, langVars, histVars, fileVars>>

\* the settings file is changed, removed or damaged from outside
EditSettings(f) ==
    /\ f # settings
    /\ settings' = f
    /\ lastCmd' = Answer("edit", <<>>, Ok(<<>>))
    /\ UNCHANGED <<menu, appVars, mainBusy, callVars, outVars, logVars, fsVars, codecVars, langVars, histVars, fileVars>>

(***************************************************************************)
(* The recent files: add_recent_file and get_recent_files, both under the  *)
(* lock of AppState.recent_files.                                          *)
(***************************************************************************)
\* the paths of the files a user opens
FilePath(i) == "f" \o ToString(i)

\* the paths a call may add: one that was never added, the second of the
\* list, the last of the list
AddChoices ==
    {FilePath(Cardinality({added[i] : i \in 1 .. Len(added)}) + 1)}
        \cup {recent_files[i] : i \in {2, Len(recent_files)} \cap (1 .. Len(recent_files))}

\* recent.retain(|p| p != &path)
retain(recent, p) == SelectSeq(recent, LAMBDA q : q # p)

\* recent.push_front(path)
push_front(recent, p) == <<p>> \o recent

\* a list that is never cut
truncate_never(recent, n) == recent

\* recent.truncate(n)
truncate(recent, n) == IF Len(recent) > n THEN SubSeq(recent, 1, n) ELSE recent

\* add_recent_file(path)
AddRecentFile(p) ==
    /\ mainBusy = 0
    /\ Len(added) < MaxAdds
    /\ recent_files' = truncate(push_front(retain(recent_files, p), p), MaxRecent)
    /\ stateAccess' = stateAccess \cup {<<"add_recent_file", "recent_files">>}
    /\ added' = Append(added, p)
    /\ lastCmd' = Answer("add_recent_file", <<p>>, Ok(<<>>))
    /\ UNCHANGED <<pending_open_files, language, emitted, settings, menu, inserted, taken,
                   emitting, mainBusy, callVars, outVars, logVars, fsVars, codecVars, langVars, fileVars>>

\* get_recent_files(): a copy of the list
GetRecentFiles ==
    /\ mainBusy = 0
    /\ stateAccess' = stateAccess \cup {<<"get_recent_files", "recent_files">>}
    /\ lastCmd' = Answer("get_recent_files", <<>>, Ok(recent_files))
    /\ UNCHANGED <<recent_files, pending_open_files, language, emitted, settings, menu,
                   histVars, mainBusy, callVars, outVars, logVars, fsVars, codecVars,
                   langVars, fileVars>>

(***************************************************************************)
(* The pending open-file requests: queue_open_files (called for a second   *)
(* instance's arguments and for files opened by the system) and            *)
(* take_pending_open_files, both under the lock of                         *)
(* AppState.pending_open_files.                                            *)
(***************************************************************************)
OpenPaths == {"a.md", "b.md"}

\* the vectors of paths a call of queue_open_files gets
OpenRequests ==
    {<<>>} \cup {<<p>> : p \in OpenPaths} \cup {<<p, q>> : p, q \in OpenPaths}

RECURSIVE QueueInto(_, _)
\* for path in &paths { if !pending.contains(path) { pending.push_back(..) } }
QueueInto(pending, paths) ==
    IF paths = <<>> THEN pending
    ELSE QueueInto(IF \E i \in 1 .. Len(pending) : pending[i] = paths[1]
                     THEN pending
                     ELSE Append(pending, paths[1]),
                   Tail(paths))

\* queue_open_files(app, paths), up to the release of the lock: nothing for
\* no paths; otherwise every path that is not pending is put at the back
QueueOpenFiles(paths) ==
    /\ paths # <<>>
    /\ Len(inserted) < MaxQueued
    /\ Len(emitting) < MaxQueued
    /\ pending_open_files' = QueueInto(pending_open_files, paths)
    /\ inserted' = inserted \o SubSeq(QueueInto(pending_open_files, paths),
                                      Len(pending_open_files) + 1,
                                      Len(QueueInto(pending_open_files, paths)))
    /\ emitting' = emitting \o paths
    /\ stateAccess' = stateAccess \cup {<<"queue_open_files", "pending_open_files">>}
    /\ UNCHANGED <<recent_files, language, emitted, settings, menu, lastCmd, added, taken,
                   mainBusy, callVars, outVars, logVars, fsVars, codecVars, langVars, fileVars>>

\* queue_open_files, after the lock: app.emit("open-file", path) for a path
EmitOpenFile ==
    /\ emitting # <<>>
    /\ emitting' = Tail(emitting)
    /\ emitted' = emitted \cup {"open-file"}
    /\ UNCHANGED <<recent_files, pending_open_files, language, stateAccess, settings, menu,
                   lastCmd, added, inserted, taken, mainBusy, callVars, outVars, logVars,
                   fsVars, codecVars, langVars, fileVars>>

\* a drain that leaves the paths in the queue
drain_copy(pending) == pending

\* pending.drain(..): what is left in the queue
drain(pending) == <<>>

\* take_pending_open_files(): Ok(pending.drain(..).collect())
TakePendingOpenFiles ==
    /\ mainBusy = 0
    /\ Len(taken) < MaxTakes
    /\ pending_open_files' = drain(pending_open_files)
    /\ taken' = Append(taken, pending_open_files)
    /\ lastCmd' = Answer("take_pending_open_files", <<>>, Ok(pending_open_files))
    /\ stateAccess' = stateAccess \cup {<<"take_pending_open_files", "pending_open_files">>}
    /\ UNCHANGED <<recent_files, language, emitted, settings, menu, added, inserted,
                   emitting, mainBusy, callVars, outVars, logVars, fsVars, codecVars,
                   langVars, fileVars>>

(***************************************************************************)
(* search_in_files.  An entry of the walk is a readable Markdown file with *)
(* its lines, or something the search passes over; a line is the number of *)
(* matches the regex built from the query finds in it.                     *)
(***************************************************************************)
\* the lines of the Markdown files of a walk
FileLines == {<<>>, <<1>>, <<0, 2>>, <<499, 2>>, <<600>>, <<250, 250, 1>>}

MarkdownFile(lines) == [kind |-> "md", lines |-> lines]

\* a directory, a file with another extension, a path with a component that
\* starts with '.', a file read_to_string fails on
Skipped(kind) == [kind |-> kind, lines |-> <<>>]

WalkEntries ==
    {MarkdownFile(lines) : lines \in FileLines}
        \cup {Skipped(kind) : kind \in {"dir", "txt", "hidden", "unreadable"}}

\* query and use_regex: the empty query, a query that is a regex either way,
\* a query that is no regex unless it is escaped
Queries == {<<"", "literal">>, <<"a", "literal">>, <<"a", "regex">>,
            <<"(", "literal">>, <<"(", "regex">>}

\* RegexBuilder::new(&pattern).build() is Ok
Builds(q) == ~(q[1] = "(" /\ q[2] = "regex")

\* SearchResult { file_path, line_number, .. } of the k-th match of the line
SearchResult(f, l, k) == <<f, l, k>>

\* results.len() >= MAX_RESULTS, before a file and before a line
Full(results) == Len(results) >= MAX_RESULTS

\* a search that goes on with the line it is in
FullAfterPush_never(len) == FALSE

\* results.len() >= MAX_RESULTS, after a push made the length len
FullAfterPush(len) == len >= MAX_RESULTS

\* for m in re.find_iter(line) { push; if full { break } }: the number of
\* pushes the loop makes for a line of n matches when it starts with len
\* results, that is n, or the first push after which it breaks
Pushes(len, n) ==
    LET breaks == {k \in 1 .. n : FullAfterPush(len + k)}
    IN  IF breaks = {} THEN n
        ELSE CHOOSE k \in breaks : \A j \in breaks : k <= j

\* the results after the loop over the n matches of line l of file f
PushMatches(results, f, l, n) ==
    results \o [k \in 1 .. Pushes(Len(results), n) |-> SearchResult(f, l, k)]

RECURSIVE ScanLines(_, _, _, _)
\* for (line_idx, line) in content.lines().enumerate(), from line l on
ScanLines(results, f, lines, l) ==
    IF l > Len(lines) \/ Full(results) THEN results
    ELSE ScanLines(PushMatches(results, f, l, lines[l]), f, lines, l + 1)

RECURSIVE WalkFrom(_, _, _)
\* for entry in WalkDir::new(&root), from entry f on
WalkFrom(results, w, f) ==
    IF f > Len(w) \/ Full(results) THEN results
    ELSE IF w[f].kind # "md" THEN WalkFrom(results, w, f + 1)
    ELSE WalkFrom(ScanLines(results, f, w[f].lines, 1), w, f + 1)

search_in_files(w, q) ==
    IF q[1] = "" THEN Ok(<<>>)
    ELSE IF ~Builds(q) THEN Err(<<"Invalid", "regex">>)
    ELSE Ok(WalkFrom(<<>>, w, 1))

\* the walk of the root yields one more entry
WalkEntry(e) ==
    /\ hits = NoCmd
    /\ Len(walk) < MaxEntries
    /\ walk' = Append(walk, e)
    /\ UNCHANGED <<hits, listVars, convVars, codecVars, deskVars, langVars, histVars>>

SearchInFiles(q) ==
    /\ hits = NoCmd
    /\ hits' = Answer("search_in_files", q, search_in_files(walk, q))
    /\ UNCHANGED <<walk, listVars, convVars, codecVars, deskVars, langVars, histVars>>

(***************************************************************************)
(* list_directory.  A name is a sequence of characters; an entry of        *)
(* read_dir is an error or a name with what path.is_dir() says.            *)
(***************************************************************************)
\* the names of a directory: hidden ones, names that differ in case only,
\* names whose order depends on the case
EntryNames == {<<".", "h">>, <<"Z", "e">>, <<"z", "e">>, <<"h">>, <<"H", "-", "e">>, <<"e", "n">>}

DirEntryError == [ok |-> FALSE, name |-> <<>>, is_directory |-> FALSE]

DirEntry(name, d) == [ok |-> TRUE, name |-> name, is_directory |-> d]

DirEntries == {DirEntryError} \cup {DirEntry(name, d) : name \in EntryNames, d \in BOOLEAN}

\* FileEntry { name, path, is_directory }: the path is the directory's
\* path joined with the name
FileEntry(e) == [name |-> e.name, is_directory |-> e.is_directory]

\* the place of a character in the order of char
CharCode(ch) ==
    CASE ch = "-" -> 45 [] ch = "." -> 46
      [] ch = "E" -> 69 [] ch = "H" -> 72 [] ch = "N" -> 78 [] ch = "Z" -> 90
      [] ch = "e" -> 101 [] ch = "h" -> 104 [] ch = "n" -> 110 [] ch = "z" -> 122

RECURSIVE cmp(_, _)
\* String::cmp: the first characters that differ decide, a proper prefix is
\* less
cmp(s, t) ==
    IF s = <<>> THEN (IF t = <<>> THEN "Equal" ELSE "Less")
    ELSE IF t = <<>> THEN "Greater"
    ELSE IF CharCode(s[1]) < CharCode(t[1]) THEN "Less"
    ELSE IF CharCode(s[1]) > CharCode(t[1]) THEN "Greater"
    ELSE cmp(Tail(s), Tail(t))

\* a comparison that looks at the names only
compare_names_only(a, b) == cmp(to_lowercase(a.name), to_lowercase(b.name))

\* the closure given to sort_by
compare(a, b) ==
    IF a.is_directory /\ ~b.is_directory THEN "Less"
    ELSE IF ~a.is_directory /\ b.is_directory THEN "Greater"
    ELSE cmp(to_lowercase(a.name), to_lowercase(b.name))

\* e put into the sorted sequence behind every element that is not greater
Insert(sorted, e) ==
    LET n == Cardinality({i \in 1 .. Len(sorted) : compare(sorted[i], e) # "Greater"})
    IN  SubSeq(sorted, 1, n) \o <<e>> \o SubSeq(sorted, n + 1, Len(sorted))

RECURSIVE sort_by(_)
\* file_entries.sort_by(..): a stable sort
sort_by(es) ==
    IF es = <<>> THEN <<>>
    ELSE Insert(sort_by(SubSeq(es, 1, Len(es) - 1)), es[Len(es)])

\* the loop over read_dir: an error and a name that starts with '.' are
\* passed over, every other entry is pushed
Pushed(es) ==
    LET kept == SelectSeq(es, LAMBDA e : e.ok /\ e.name[1] # ".")
    IN  [i \in 1 .. Len(kept) |-> FileEntry(kept[i])]

list_directory(es, readable) ==
    IF ~readable THEN Err(<<"Failed", "to", "read", "directory">>)
    ELSE Ok(sort_by(Pushed(es)))

\* read_dir yields one more entry, an error or a name the directory does
\* not hold yet
ReadDirEntry(e) ==
    /\ listing = NoCmd
    /\ Len(entries) < MaxDirEntries
    /\ e.ok => \A i \in 1 .. Len(entries) : entries[i].name # e.name
    /\ entries' = Append(entries, e)
    /\ UNCHANGED <<listing, searchVars, convVars, codecVars, deskVars, langVars, histVars>>

ListDirectory(readable) ==
    /\ listing = NoCmd
    /\ listing' = Answer("list_directory", <<>>, list_directory(entries, readable))
    /\ UNCHANGED <<entries, searchVars, convVars, codecVars, deskVars, langVars, histVars>>

(***************************************************************************)
(* The Markdown codec (mod convert).  A text is a sequence of lines and a  *)
(* line a sequence of tokens: an indentation unit, a block marker, an      *)
(* inline delimiter or a word.                                             *)
(***************************************************************************)
\* ("FENCE" stands for a triple backtick, "TICK" for a backtick.)
\* the lines a document is typed from: blank, a heading with emphasis, text,
\* an unmatched delimiter, list items at three depths with both bullet
\* markers, an ordered item, quotes, indented text, fences, a rule, table
\* rows of one and two cells, one of them the separator row
DocLines ==
    { <<>>,
      <<"## ", "*", "a", "*">>,
      <<"a">>,
      <<"**", "b">>,
      <<"- ", "a">>,
      <<"  ", "* ", "b">>,
      <<"  ", "  ", "- ", "c">>,
      <<"2. ", "a">>,
      <<"> ", "a">>,
      <<"> ", "- ", "b">>,
      <<"  ", "a">>,
      <<"  ", "FENCE">>,
      <<"FENCE", "rs">>,
      <<"FENCE">>,
      <<"***">>,
      <<"|", "a", "|", "b", "|">>,
      <<"|", "---", "|">>,
      <<"|", "c", " ", "|">> }

Min(a, b) == IF a < b THEN a ELSE b

\* the first index of s that satisfies Test, Len(s) + 1 without one
FirstIndex(s, Test(_)) ==
    IF \E i \in 1 .. Len(s) : Test(s[i])
      THEN CHOOSE i \in 1 .. Len(s) : Test(s[i]) /\ \A j \in 1 .. i - 1 : ~Test(s[j])
      ELSE Len(s) + 1

RECURSIVE IndentOf(_)
\* the number of indentation units a line starts with
IndentOf(l) == IF l # <<>> /\ l[1] = "  " THEN 1 + IndentOf(Tail(l)) ELSE 0

Indent(n) == [i \in 1 .. n |-> "  "]

\* the line without its indentation
Body(l) == SubSeq(l, IndentOf(l) + 1, Len(l))

\* the line without at most d units of its indentation
Dedent(l, d) == SubSeq(l, Min(IndentOf(l), d) + 1, Len(l))

\* the token that classifies the line
Marker(l) == IF Body(l) = <<>> THEN "" ELSE Body(l)[1]

HeadingMarkers == {"# ", "## "}

HeadingLevel(m) == IF m = "# " THEN 1 ELSE 2

HeadingMarker(level) == IF level = 1 THEN "# " ELSE "## "

BulletMarkers == {"- ", "* "}

OrderedMarker(i) == ToString(i) \o ". "

OrderedMarkers == {OrderedMarker(i) : i \in 1 .. 9}

IsBlank(l) == Body(l) = <<>>

IsHeading(l) == Marker(l) \in HeadingMarkers

IsRule(l) == Body(l) \in {<<"---">>, <<"***">>}

IsFence(l) == Marker(l) = "FENCE"

IsClosingFence(l) == Body(l) = <<"FENCE">>

IsQuote(l) == Marker(l) = "> "

\* the kind of list a line starts an item of, "" for a line that is no item
ListKind(l) ==
    IF Marker(l) \in BulletMarkers THEN "BulletList"
    ELSE IF Marker(l) \in OrderedMarkers THEN "OrderedList"
    ELSE ""

IsItem(l) == ListKind(l) # ""

IsRow(l) == Len(Body(l)) >= 2 /\ Body(l)[1] = "|" /\ Body(l)[Len(Body(l))] = "|"

(***************************************************************************)
(* The inline scanner.                                                     *)
(***************************************************************************)
Delimiters == {"*", "**", "TICK"}

SpanKind(d) == IF d = "*" THEN "Emphasis" ELSE IF d = "**" THEN "Strong" ELSE "InlineCode"

SpanDelimiter(k) == IF k = "Emphasis" THEN "*" ELSE IF k = "Strong" THEN "**" ELSE "TICK"

PlainText(toks) == [s |-> "PlainText", toks |-> toks]

\* a literal token joins the plain text that follows it
Literal(tok, spans) ==
    IF spans # <<>> /\ spans[1].s = "PlainText"
      THEN <<PlainText(<<tok>> \o spans[1].toks)>> \o Tail(spans)
      ELSE <<PlainText(<<tok>>)>> \o spans

RECURSIVE Inline(_)
\* a delimiter opens a span closed by the nearest delimiter of its kind
\* behind at least one token; a delimiter without one is literal text
Inline(t) ==
    IF t = <<>> THEN <<>>
    ELSE IF t[1] \in Delimiters /\ \E j \in 3 .. Len(t) : t[j] = t[1]
      THEN LET j == CHOOSE j \in 3 .. Len(t) :
                        t[j] = t[1] /\ \A i \in 3 .. j - 1 : t[i] # t[1]
               inner == SubSeq(t, 2, j - 1)
           IN  <<IF t[1] = "TICK"
                   THEN [s |-> "InlineCode", toks |-> inner]
                   ELSE [s |-> SpanKind(t[1]), spans |-> Inline(inner)]>>
               \o Inline(SubSeq(t, j + 1, Len(t)))
      ELSE Literal(t[1], Inline(Tail(t)))

RECURSIVE SerInline(_)
SerInline(spans) ==
    IF spans = <<>> THEN <<>>
    ELSE LET sp == spans[1]
         IN  (IF sp.s \in {"PlainText", "InlineCode"}
                THEN (IF sp.s = "InlineCode" THEN <<"TICK">> ELSE <<>>)
                     \o sp.toks
                     \o (IF sp.s = "InlineCode" THEN <<"TICK">> ELSE <<>>)
                ELSE <<SpanDelimiter(sp.s)>> \o SerInline(sp.spans)
                     \o <<SpanDelimiter(sp.s)>>)
             \o SerInline(Tail(spans))

(***************************************************************************)
(* Table rows.                                                             *)
(***************************************************************************)
\* a cell read with its padding
Trim_padded(t) == t

RECURSIVE Trim(_)
\* the tokens without the padding around them
Trim(t) ==
    IF t # <<>> /\ t[1] = " " THEN Trim(Tail(t))
    ELSE IF t # <<>> /\ t[Len(t)] = " " THEN Trim(SubSeq(t, 1, Len(t) - 1))
    ELSE t

RECURSIVE Split(_)
\* the runs of tokens between the pipes
Split(t) ==
    LET j == FirstIndex(t, LAMBDA x : x = "|")
    IN  IF j > Len(t) THEN <<t>>
        ELSE <<SubSeq(t, 1, j - 1)>> \o Split(SubSeq(t, j + 1, Len(t)))

\* the cells of a row, each without its padding
Cells(l) ==
    LET parts == Split(SubSeq(Body(l), 2, Len(Body(l)) - 1))
    IN  [i \in 1 .. Len(parts) |-> Trim(parts[i])]

\* the header-separator row: every cell is a run of dashes
IsSep(l) == IsRow(l) /\ \A i \in 1 .. Len(Cells(l)) : Cells(l)[i] = <<"---">>

\* a row of exactly w cells: padded with empty cells or truncated
Rectangular(cells, w) ==
    [i \in 1 .. w |-> IF i <= Len(cells) THEN Inline(cells[i]) ELSE <<>>]

IsTableStart(ls) == Len(ls) >= 2 /\ IsRow(ls[1]) /\ IsSep(ls[2])

(***************************************************************************)
(* parse(text) -> IR: the block scanner.                                   *)
(***************************************************************************)
Heading(level, inl) == [k |-> "Heading", level |-> level, inl |-> inl]

Paragraph(inl) == [k |-> "Paragraph", inl |-> inl]

List(kind, items) == [k |-> kind, items |-> items]

Blockquote(blocks) == [k |-> "Blockquote", blocks |-> blocks]

CodeBlock(lang, text) == [k |-> "CodeBlock", lang |-> lang, text |-> text]

Table(rows) == [k |-> "Table", rows |-> rows]

HorizontalRule == [k |-> "HorizontalRule"]

\* the lines from index a on
From(ls, a) == SubSeq(ls, a, Len(ls))

RECURSIVE JoinLines(_)
\* the lines of a paragraph are one text, a line break reads as a space
JoinLines(ls) ==
    Body(ls[1]) \o (IF Len(ls) > 1 THEN <<" ">> \o JoinLines(Tail(ls)) ELSE <<>>)

\* whether the line at index i goes on with the paragraph before it
ContinuesParagraph(ls, i) ==
    /\ ~IsBlank(ls[i])
    /\ ~IsHeading(ls[i])
    /\ ~IsRule(ls[i])
    /\ ~IsFence(ls[i])
    /\ ~IsQuote(ls[i])
    /\ ~IsItem(ls[i])
    /\ ~IsTableStart(From(ls, i))

\* the number of lines of the paragraph that starts the lines
ParagraphRun(ls) ==
    IF \E i \in 2 .. Len(ls) : ~ContinuesParagraph(ls, i)
      THEN (CHOOSE i \in 2 .. Len(ls) :
                /\ ~ContinuesParagraph(ls, i)
                /\ \A j \in 2 .. i - 1 : ContinuesParagraph(ls, j)) - 1
      ELSE Len(ls)

\* the number of lines of the list that starts the lines: up to a blank line
\* or a line, not indented deeper than the first item, that is no item of
\* the same kind of list
ListRun(ls) ==
    FirstIndex(Tail(ls),
               LAMBDA l : \/ IsBlank(l)
                          \/ /\ IndentOf(l) <= IndentOf(ls[1])
                             /\ ListKind(l) # ListKind(ls[1]))

RECURSIVE ParseBlocks(_)
RECURSIVE Items(_, _)

\* the items of a list run whose items start at indentation d: an item is
\* the text after its marker and the blocks of the deeper lines after it
Items(run, d) ==
    IF run = <<>> THEN <<>>
    ELSE LET after == Tail(run)
             n == FirstIndex(after, LAMBDA l : IndentOf(l) <= d)
         IN  << <<Paragraph(Inline(Tail(Body(run[1]))))>>
                \o ParseBlocks(SubSeq(after, 1, n - 1)) >>
             \o Items(From(after, n), d)

ParseBlocks(ls) ==
    IF ls = <<>> THEN <<>>
    ELSE IF IsBlank(ls[1]) THEN ParseBlocks(Tail(ls))
    ELSE IF IsHeading(ls[1])
      THEN <<Heading(HeadingLevel(Marker(ls[1])), Inline(Tail(Body(ls[1]))))>>
           \o ParseBlocks(Tail(ls))
    ELSE IF IsRule(ls[1]) THEN <<HorizontalRule>> \o ParseBlocks(Tail(ls))
    ELSE IF IsFence(ls[1])
      \* up to the closing fence; a fence left open is closed by the end
      THEN LET n == FirstIndex(Tail(ls), IsClosingFence)
           IN  <<CodeBlock(Tail(Body(ls[1])),
                           [i \in 1 .. n - 1 |-> Dedent(ls[i + 1], IndentOf(ls[1]))])>>
               \o ParseBlocks(From(ls, n + 2))
    ELSE IF IsQuote(ls[1])
      THEN LET n == FirstIndex(ls, LAMBDA l : ~IsQuote(l)) - 1
           IN  <<Blockquote(ParseBlocks([i \in 1 .. n |-> Tail(Body(ls[i]))]))>>
               \o ParseBlocks(From(ls, n + 1))
    ELSE IF IsItem(ls[1])
      THEN LET n == ListRun(ls)
           IN  <<List(ListKind(ls[1]), Items(SubSeq(ls, 1, n), IndentOf(ls[1])))>>
               \o ParseBlocks(From(ls, n + 1))
    ELSE IF IsTableStart(ls)
      THEN LET n == FirstIndex(From(ls, 3), LAMBDA l : ~IsRow(l)) - 1
               w == Len(Cells(ls[1]))
           IN  <<Table(<<Rectangular(Cells(ls[1]), w)>>
                       \o [i \in 1 .. n |-> Rectangular(Cells(ls[i + 2]), w)])>>
               \o ParseBlocks(From(ls, n + 3))
    ELSE LET n == ParagraphRun(ls)
         IN  <<Paragraph(Inline(JoinLines(SubSeq(ls, 1, n))))>>
             \o ParseBlocks(From(ls, n + 1))

parse(text) == ParseBlocks(text)

(***************************************************************************)
(* serialize(IR) -> text: canonical Markdown.                              *)
(***************************************************************************)
Max(S) == CHOOSE x \in S : \A y \in S : y <= x

\* the width of column j: that of its widest cell
Width(rows, j) == Max({Len(SerInline(rows[i][j])) : i \in 1 .. Len(rows)} \cup {1})

RECURSIVE SerRow(_, _, _)
\* the cells from column j on, each padded to the width of its column
SerRow(rows, i, j) ==
    IF j > Len(rows[i]) THEN <<>>
    ELSE SerInline(rows[i][j])
         \o [n \in 1 .. Width(rows, j) - Len(SerInline(rows[i][j])) |-> " "]
         \o <<"|">> \o SerRow(rows, i, j + 1)

RECURSIVE SepRow(_)
SepRow(w) == IF w = 0 THEN <<>> ELSE <<"---", "|">> \o SepRow(w - 1)

RECURSIVE Flatten(_)
\* the lines of a sequence of sequences of lines
Flatten(ss) == IF ss = <<>> THEN <<>> ELSE ss[1] \o Flatten(Tail(ss))

RECURSIVE SerBlocks(_, _, _)
RECURSIVE SerBlock(_, _)

\* the lines of a block at nesting level n of a list: every level is one
\* indentation unit
SerBlock(b, n) ==
    IF b.k = "Heading"
      THEN <<Indent(n) \o <<HeadingMarker(b.level)>> \o SerInline(b.inl)>>
    ELSE IF b.k = "Paragraph" THEN <<Indent(n) \o SerInline(b.inl)>>
    ELSE IF b.k = "HorizontalRule" THEN <<Indent(n) \o <<"---">>>>
    ELSE IF b.k = "CodeBlock"
      THEN <<Indent(n) \o <<"FENCE">> \o b.lang>>
           \o [i \in 1 .. Len(b.text) |-> Indent(n) \o b.text[i]]
           \o <<Indent(n) \o <<"FENCE">>>>
    ELSE IF b.k = "Blockquote"
      THEN LET inner == SerBlocks(b.blocks, 0, TRUE)
           IN  [i \in 1 .. Len(inner) |-> Indent(n) \o <<"> ">> \o inner[i]]
    ELSE IF b.k = "Table"
      THEN <<Indent(n) \o <<"|">> \o SerRow(b.rows, 1, 1)>>
           \o <<Indent(n) \o <<"|">> \o SepRow(Len(b.rows[1]))>>
           \o [i \in 1 .. Len(b.rows) - 1 |->
                  Indent(n) \o <<"|">> \o SerRow(b.rows, i + 1, 1)]
    ELSE \* a list: the marker and the text of each item, its other blocks
         \* one level deeper
         Flatten([i \in 1 .. Len(b.items) |->
                    <<Indent(n)
                      \o <<IF b.k = "BulletList" THEN "- " ELSE OrderedMarker(i)>>
                      \o SerInline(b.items[i][1].inl)>>
                    \o SerBlocks(Tail(b.items[i]), n + 1, FALSE)])

\* the lines of a sequence of blocks, a blank line between two of them
\* where blank lines are allowed
SerBlocks(bs, n, blanks) ==
    IF bs = <<>> THEN <<>>
    ELSE SerBlock(bs[1], n)
         \o (IF Len(bs) > 1
               THEN (IF blanks THEN << <<>> >> ELSE <<>>)
                    \o SerBlocks(Tail(bs), n, blanks)
               ELSE <<>>)

serialize(tree) == SerBlocks(tree, 0, TRUE)


(***************************************************************************)
(* The codec at work: a text is typed line by line, parsed, the IR         *)
(* serialised and the result parsed again.                                 *)
(***************************************************************************)
TypeLine(l) ==
    /\ stage = "text"
    /\ Len(doc) < MaxLines
    /\ doc' = Append(doc, l)
    /\ UNCHANGED <<ir, out, back, stage, convVars, deskVars, langVars, histVars, fileVars>>

Parse ==
    /\ stage = "text"
    /\ ir' = parse(doc)
    /\ stage' = "parsed"
    /\ UNCHANGED <<doc, out, back, convVars, deskVars, langVars, histVars, fileVars>>

Serialize ==
    /\ stage = "parsed"
    /\ out' = serialize(ir)
    /\ stage' = "serialized"
    /\ UNCHANGED <<doc, ir, back, convVars, deskVars, langVars, histVars, fileVars>>

Reparse ==
    /\ stage = "serialized"
    /\ back' = parse(out)
    /\ stage' = "reparsed"
    /\ UNCHANGED <<doc, ir, out, convVars, deskVars, langVars, histVars, fileVars>>

\* the steps of a call once it was made
Work ==
    \/ \E c \in Calls : WorkerDispatch(c)
    \/ \E c \in Calls : ImportRun(c)
    \/ \E c \in Calls : ExportWriteTemp(c)
    \/ \E c \in Calls : ExportCommit(c)
    \/ \E c \in Calls : ExportWriteFail(c)
    \/ \E c \in Calls : WorkerPanic(c)
    \/ \E c \in Calls : Await(c)

Interactive ==
    \/ \E lang \in LangCodes : SetLanguage(lang)
    \/ MenuFileNew

\* one conversion call at a time by default, any tag, any path
Init == InitCalls(NumCalls)

Next ==
    \/ \E c \in Calls, p \in Paths, t \in Tags : ImportDocument(c, p, t)
    \/ \E c \in Calls, p \in Paths, t \in Tags : ExportDocument(c, p, t)
    \/ Work
    \/ Interactive

Spec == Init /\ [][Next]_vars

\* concurrent conversion calls on one path, each caller waiting for its result
InitConc == InitCalls(NumConc)

NextConc ==
    \/ \E c \in Calls, t \in ConcTags : ImportDocument(c, PathA, t)
    \/ \E c \in Calls, t \in ConcTags : ExportDocument(c, PathA, t)
    \/ Work
    \/ Interactive

SpecConc == InitConc /\ [][NextConc]_vars

\* Callers that may stop waiting.  The blocking pool runs every queued closure, an adapter that does not
\* panic or fail returns, and the async runtime resumes a task whose
\* JoinHandle is ready
Fairness ==
    \A c \in 1 .. NumCalls :
        /\ WF_vars(WorkerDispatch(c))
        /\ WF_vars(ImportRun(c))
        /\ WF_vars(ExportWriteTemp(c))
        /\ WF_vars(ExportCommit(c))
        /\ WF_vars(Await(c))

NextFair ==
    \/ \E c \in Calls, p \in Paths, t \in ConcTags : ImportDocument(c, p, t)
    \/ \E c \in Calls, p \in Paths, t \in ConcTags : ExportDocument(c, p, t)
    \/ \E c \in Calls : Abandon(c)
    \/ Work
    \/ Interactive

FairSpec == Init /\ [][NextFair]_vars /\ Fairness

\* the application with no conversion call: the start of every
\* specification below
InitIdle == InitCalls(0)

\* the codec alone
NextCodec ==
    \/ \E l \in DocLines : TypeLine(l)
    \/ Parse
    \/ Serialize
    \/ Reparse

SpecCodec == InitIdle /\ [][NextCodec]_vars

\* the language preference: the first launch was made without a settings
\* file; then starts, saves, menu choices, set_language and outside changes
NextSettings ==
    \/ \E loc \in Locales : Launch(loc)
    \/ \E lang \in LangCodes : SavePreference(lang)
    \/ \E l \in {"en", "zh"} : MenuLanguage(l)
    \/ \E f \in SettingsFiles : EditSettings(f)
    \/ \E lang \in LangCodes : SetLanguage(lang)

SpecSettings == InitIdle /\ [][NextSettings]_vars

\* normalize_language on every code of up to MaxCodeLen characters
NextLang ==
    \/ \E ch \in CodeChars : TypeChar(ch)
    \/ Normalize
    \/ NormalizeAgain

SpecLang == InitIdle /\ [][NextLang]_vars

\* the recent files: up to MaxAdds calls of add_recent_file, get_recent_files
\* at any time
NextRecent ==
    \/ \E p \in AddChoices : AddRecentFile(p)
    \/ GetRecentFiles

SpecRecent == InitIdle /\ [][NextRecent]_vars

\* the pending queue: calls of queue_open_files and take_pending_open_files
\* in any order, a take also between the insertion and the events of a call
NextPending ==
    \/ \E paths \in OpenRequests : QueueOpenFiles(paths)
    \/ EmitOpenFile
    \/ TakePendingOpenFiles

SpecPending == InitIdle /\ [][NextPending]_vars

\* search_in_files on every walk of up to MaxEntries entries
NextSearch ==
    \/ \E e \in WalkEntries : WalkEntry(e)
    \/ \E q \in Queries : SearchInFiles(q)

SpecSearch == InitIdle /\ [][NextSearch]_vars

\* list_directory on every directory of up to MaxDirEntries entries, in
\* every order read_dir may yield them
NextList ==
    \/ \E e \in DirEntries : ReadDirEntry(e)
    \/ \E readable \in BOOLEAN : ListDirectory(readable)

SpecList == InitIdle /\ [][NextList]_vars

(***************************************************************************)
(* Properties.                                                             *)
(***************************************************************************)
Range(seq) == {seq[i] : i \in 1 .. Len(seq)}

\* the adapter operation of format t for direction d
AdapterOf(d, t) == IF d = "import" THEN t \o "_to_markdown" ELSE "markdown_to_" \o t

Made(c) == pc[c] # "idle"

Done(c) == pc[c] = "done"

\* C1: a call whose tag is not exactly docx, xlsx, pdf or pptx never reaches
\* an adapter, touches no file-system path (no read, no directory, no
\* temporary file, no destination) and answers the unsupported-format error
\* naming the direction and the tag.
C1_UnsupportedTag ==
    \A c \in Calls :
        (Made(c) /\ tag[c] \notin SupportedTags) =>
            /\ invoked[c] = <<>>
            /\ touched[c] = {}
            /\ tmp[c] = NoFile
            /\ fileSeen[c] = NoFile
            /\ pc[c] \in {"spawned", "returned", "done"}
            /\ pc[c] = "returned" => workerOut[c] = Err(UnsupportedMsg(dir[c], tag[c]))
            /\ Done(c) => result[c] = Err(UnsupportedMsg(dir[c], tag[c]))

C1_Witness ==
    \E c \in Calls :
        /\ Done(c)
        /\ dir[c] = "import"
        /\ tag[c] = "DOCX"
        /\ path[c] = PathA
        /\ result[c] = Err(<<"Unsupported", "import", "format:", "DOCX">>)
        /\ files = InitFiles
        /\ dirs = InitDirs

\* C2: a call with a supported tag t makes exactly one adapter invocation,
\* of the adapter of format t for the call's direction, with the caller's
\* path and text; it is never made again, and the caller receives what that
\* invocation returned (the task error when it panicked instead).
C2_OneAdapterOnce ==
    \A c \in Calls :
        (Made(c) /\ tag[c] \in SupportedTags) =>
            /\ pc[c] = "spawned" => invoked[c] = <<>>
            /\ pc[c] # "spawned" =>
                   invoked[c] = << [fn |-> AdapterOf(dir[c], tag[c]),
                                    path |-> path[c],
                                    content |-> content(c)] >>
            /\ Done(c) =>
                   result[c] = IF workerOut[c] = NoResult THEN Err(TaskErrorMsg)
                               ELSE workerOut[c]

C2_Witness ==
    \E c \in Calls :
        /\ Done(c)
        /\ dir[c] = "export"
        /\ tag[c] = "pptx"
        /\ result[c] = Ok(<<>>)
        /\ Len(invoked[c]) = 1
        /\ files[path[c]] = Container("pptx", Content(c))

\* C3: every call that was made is answered, exactly once: it ends with one
\* result delivered, a success value or an error message, also when the tag
\* is unknown, the adapter fails or the blocking task panics.
C3_OneResult ==
    \A c \in 1 .. NumCalls :
        /\ [](/\ deliveries[c] <= 1
              /\ Done(c) <=> deliveries[c] = 1
              /\ Done(c) => (result[c].ok \/ result[c].val # <<>>))
        /\ (pc[c] = "spawned") ~> (Done(c) /\ deliveries[c] = 1)

C3_Witness ==
    \E c \in Calls :
        /\ Done(c)
        /\ deliveries[c] = 1
        /\ workerOut[c] = NoResult
        /\ result[c] = Err(TaskErrorMsg)

\* C4: while a conversion is in flight the interactive thread is not
\* blocked on it: it can take a command (set_language) and a menu event.
C4_InteractiveFree ==
    \A c \in Calls :
        InFlight(c) =>
            /\ mainBusy = 0
            /\ ENABLED MenuFileNew
            /\ ENABLED SetLanguage(<<"z", "h">>)

C4_Witness ==
    \E c \in Calls :
        /\ pc[c] = "writing"
        /\ mainBusy = 0
        /\ language = "zh"
        /\ "menu-new-file" \in emitted

\* what a call can answer when it runs with no other call, the file at its
\* path being f
AloneResults(c, f) ==
    IF tag[c] \notin SupportedTags THEN {Err(UnsupportedMsg(dir[c], tag[c]))}
    ELSE IF dir[c] = "import"
      THEN {ImportOutcome(AdapterOf("import", tag[c]), path[c], f), Err(TaskErrorMsg)}
      ELSE {Ok(<<>>),
            Err(ConversionErrorMsg("WriteFailed", "export", tag[c], path[c])),
            Err(TaskErrorMsg)}

\* an export of b to path p has moved its file into place
Committed(b, p) == dir[b] = "export" /\ path[b] = p /\ workerOut[b] = Ok(<<>>)

C6_RunsToCompletion ==
    \A c \in 1 .. NumCalls :
        /\ (abandoned[c] /\ pc[c] \in {"spawned", "running", "writing"})
               ~> (pc[c] \in {"returned", "panicked", "done"})
        /\ []((abandoned[c] /\ tag[c] \in SupportedTags
                 /\ pc[c] \in {"returned", "panicked", "done"}) =>
                /\ Len(invoked[c]) = 1
                /\ (dir[c] = "export" /\ workerOut[c] = Ok(<<>>)) =>
                       /\ files[path[c]].complete
                       /\ files[path[c]].fmt = tag[c])

C6_Witness ==
    \E c \in Calls :
        /\ abandoned[c]
        /\ Done(c)
        /\ dir[c] = "export"
        /\ result[c] = Ok(<<>>)
        /\ files[path[c]] = Container(tag[c], Content(c))

\* C7: no destination ever holds a half-written file; after an export that
\* returned Ok a complete file is at the destination and its temporary file
\* is gone; after an export that failed or panicked the destination holds
\* what it held when the call was made (nothing, or the prior file), or a
\* complete file another export moved there.
C7_ExportAtomic ==
    /\ \A p \in Paths : files[p] = NoFile \/ files[p].complete
    /\ \A c \in Calls :
        (dir[c] = "export" /\ pc[c] \in {"returned", "panicked", "done"}) =>
            IF workerOut[c] = Ok(<<>>)
              THEN /\ files[path[c]] # NoFile
                   /\ files[path[c]].complete
                   /\ tmp[c] = NoFile
              ELSE \/ files[path[c]] = fileAtCall[c]
                   \/ \E b \in Calls \ {c} :
                          /\ Committed(b, path[c])
                          /\ files[path[c]] = Container(tag[b], Content(b))

\* an export to PathA that failed after it had started writing
C7_Witness ==
    \E c \in Calls :
        /\ Done(c)
        /\ dir[c] = "export"
        /\ path[c] = PathA
        /\ result[c] = Err(ConversionErrorMsg("WriteFailed", "export", tag[c], PathA))
        /\ touched[c] # {}
        /\ files[PathA] = Container("docx", OldText)

\* C8: an export with a supported tag has created every missing parent
\* directory of its destination before it writes, and after it returned Ok
\* the directories and the file exist.
C8_CreatesParents ==
    \A c \in Calls :
        (dir[c] = "export" /\ tag[c] \in SupportedTags) =>
            /\ pc[c] = "writing" => Ancestors(path[c]) \subseteq dirs
            /\ (pc[c] \in {"returned", "done"} /\ workerOut[c] = Ok(<<>>)) =>
                   /\ Ancestors(path[c]) \subseteq dirs
                   /\ files[path[c]] # NoFile

C8_Witness ==
    \E c \in Calls :
        /\ Done(c)
        /\ dir[c] = "export"
        /\ path[c] = PathB
        /\ result[c] = Ok(<<>>)
        /\ {"/new", "/new/sub"} \subseteq dirs
        /\ files[PathB] = Container(tag[c], Content(c))

\* C9: every error a call answers names the call's format tag, its
\* direction and its path.
C9_ErrorContext ==
    \A c \in Calls :
        (Done(c) /\ ~result[c].ok) =>
            /\ tag[c] \in Range(result[c].val)
            /\ dir[c] \in Range(result[c].val)
            /\ path[c] \in Range(result[c].val)

C11_PreferenceSurvives ==
    /\ [](\A lang \in LangCodes :
            lastCmd = Answer("save_language_preference", lang, Ok(<<>>)) =>
                settings = Stored(normalize_language(lang)))
    /\ [][\A lang \in LangCodes :
            /\ (SavePreference(lang) /\ lastCmd'.res.ok) =>
                   /\ settings' = Stored(normalize_language(lang))
                   /\ language' = normalize_language(lang)
            /\ \A loc \in Locales :
                   (/\ lastCmd = Answer("save_language_preference", lang, Ok(<<>>))
                    /\ Launch(loc)) =>
                       language' = normalize_language(lang)]_vars

\* "ZH-TW" was saved and the application started again under an English
\* system locale
C11_Witness ==
    /\ lastCmd = Answer("main after save_language_preference", <<<<"e", "n">>>>,
                         Ok(<<"zh">>))
    /\ settings = Stored("zh")
    /\ language = "zh"

\* C12: a start sets the language to the one stored in the settings file
\* whenever the file loads; otherwise (file absent, unreadable or not
\* parsable) to the normalised system locale, and to "en" when there is no
\* system locale.  No state of the settings file keeps the application
\* from starting.
C12_StartupPriority ==
    /\ [](\A loc \in Locales : ENABLED Launch(loc))
    /\ [][\A loc \in Locales :
            Launch(loc) =>
                language' = IF settings.state = "valid" THEN settings.language
                            ELSE IF loc # NoLocale THEN normalize_language(loc[1])
                            ELSE "en"]_vars

\* the application started with a damaged settings file under the system
\* locale "ZH-TW"
C12_Witness ==
    /\ lastCmd = Answer("main after edit", <<<<"Z", "H", "-", "T", "W">>>>, Ok(<<"zh">>))
    /\ settings = CorruptSettings
    /\ language = "zh"
    /\ menu = "zh"

\* C13: normalize_language answers "zh" exactly for the codes whose first
\* two characters are z and h in either case and end there or go on with
\* '-', and "en" for every other code, the empty one included; normalising
\* its answer gives the same answer.
C13_NormalizeLanguage ==
    /\ normal # "" =>
           /\ normal \in {"en", "zh"}
           /\ normal = "zh" <=>
                  /\ Len(code) >= 2
                  /\ code[1] \in {"z", "Z"}
                  /\ code[2] \in {"h", "H"}
                  /\ Len(code) = 2 \/ code[3] = "-"
    /\ again # "" => again = normal

\* "ZH-z" was normalised to "zh" and that to "zh" again
C13_Witness ==
    /\ code = <<"Z", "H", "-", "z">>
    /\ normal = "zh"
    /\ again = "zh"

\* the number of the last call of add_recent_file that gave the path p
LastAdd(p) == CHOOSE i \in 1 .. Len(added) : added[i] = p /\ \A j \in i + 1 .. Len(added) : added[j] # p

\* C14: whatever was added and read, the recent-files list has at most 10
\* entries, no path twice, only paths that were added, the path added last
\* at its front, and its paths in the order of their last add, newest
\* first; adding a path that is in the list moves it to the front and
\* leaves the length as it is.  get_recent_files answers the list.
C14_RecentFiles ==
    /\ [](/\ Len(recent_files) <= 10
          /\ \A i, j \in 1 .. Len(recent_files) :
                 i < j => /\ recent_files[i] # recent_files[j]
                          /\ LastAdd(recent_files[i]) > LastAdd(recent_files[j])
          /\ Range(recent_files) \subseteq Range(added)
          /\ added # <<>> => recent_files[1] = added[Len(added)]
          /\ lastCmd.cmd = "get_recent_files" => lastCmd.res = Ok(recent_files))
    /\ [][\A p \in Range(recent_files) :
            AddRecentFile(p) =>
                /\ Len(recent_files') = Len(recent_files)
                /\ recent_files'[1] = p
                /\ Range(recent_files') = Range(recent_files)]_vars

\* eleven paths were added and then the oldest of the ten kept was added
\* again
C14_Witness ==
    /\ Len(added) = 12
    /\ added[12] = FilePath(2)
    /\ Len(recent_files) = 10
    /\ recent_files[1] = FilePath(2)
    /\ recent_files[2] = FilePath(11)
    /\ FilePath(1) \notin Range(recent_files)

RECURSIVE Returned(_)
\* the paths of the answers ts, one answer after the other
Returned(ts) == IF ts = <<>> THEN <<>> ELSE ts[1] \o Returned(Tail(ts))

\* C15: a take answers the paths pending at that moment in the order they
\* were queued and leaves the queue empty; at any time the answers of all
\* takes, one after the other, followed by the paths still pending are the
\* paths put into the queue in the order they were put: each was returned
\* by one take or is still pending, none was lost or returned twice.
C15_PendingTakenOnce ==
    /\ [](Returned(taken) \o pending_open_files = inserted)
    /\ [][TakePendingOpenFiles =>
            /\ lastCmd'.res = Ok(pending_open_files)
            /\ pending_open_files' = <<>>]_vars

\* a.md and b.md were queued and taken, a.md was queued again and taken
\* by a second take, b.md is pending again
C15_Witness ==
    /\ Len(taken) = 2
    /\ taken[1] = <<"a.md", "b.md">>
    /\ taken[2] = <<"a.md">>
    /\ pending_open_files = <<"b.md">>
    /\ inserted = <<"a.md", "b.md", "a.md", "b.md">>

RECURSIVE LineMatches(_, _, _)
\* every match of the lines from line l on of file f: lines ascending,
\* the matches of a line from left to right
LineMatches(f, lines, l) ==
    IF l > Len(lines) THEN <<>>
    ELSE [k \in 1 .. lines[l] |-> <<f, l, k>>] \o LineMatches(f, lines, l + 1)

RECURSIVE AllMatches(_, _)
\* every match of the walk from entry f on, files in walk order
AllMatches(w, f) ==
    IF f > Len(w) THEN <<>>
    ELSE (IF w[f].kind = "md" THEN LineMatches(f, w[f].lines, 1) ELSE <<>>)
         \o AllMatches(w, f + 1)

\* C16: search_in_files never answers more than 500 results; with a query
\* that is searched for it answers every match of the traversal when there
\* are at most 500 and the first 500 of them in traversal order when there
\* are more, also when the line that reaches 500 has further matches.
C16_SearchCap ==
    hits.res.ok =>
        /\ Len(hits.res.val) <= 500
        /\ hits.arg[1] # "" =>
               hits.res.val = SubSeq(AllMatches(walk, 1), 1,
                                     IF Len(AllMatches(walk, 1)) > 500
                                       THEN 500 ELSE Len(AllMatches(walk, 1)))

\* the second line of the first file has two matches where one result is
\* left, and another file follows
C16_Witness ==
    /\ Len(walk) = 2
    /\ walk[1] = MarkdownFile(<<499, 2>>)
    /\ walk[2] = MarkdownFile(<<1>>)
    /\ hits.res.ok
    /\ Len(hits.res.val) = 500
    /\ hits.res.val[500] = <<1, 2, 1>>

\* the lower-cased name s is not behind the lower-cased name t: s is the
\* start of t, or at the first place they differ the character of s is
\* the lesser one
NotBehind(s, t) ==
    LET ls == to_lowercase(s)
        lt == to_lowercase(t)
        same(n) == \A i \in 1 .. n : ls[i] = lt[i]
    IN  \/ Len(ls) <= Len(lt) /\ same(Len(ls))
        \/ \E i \in 1 .. Len(ls) :
               /\ i <= Len(lt)
               /\ same(i - 1)
               /\ CharCode(ls[i]) < CharCode(lt[i])

\* C17: list_directory answers no entry whose name starts with '.'; it
\* answers every other entry read_dir yielded, once; every directory comes
\* before every entry that is no directory, and of two entries of the same
\* group the one in front has the lower-cased name that is not behind.
C17_ListOrder ==
    listing.res.ok =>
        LET val == listing.res.val
        IN  /\ \A i \in 1 .. Len(val) : val[i].name[1] # "."
            /\ \A e \in Range(entries) :
                   (e.ok /\ e.name[1] # ".") =>
                       Cardinality({i \in 1 .. Len(val) : val[i] = FileEntry(e)}) = 1
            /\ Len(val) = Cardinality({e \in Range(entries) : e.ok /\ e.name[1] # "."})
            /\ \A i, j \in 1 .. Len(val) :
                   i < j =>
                       /\ val[j].is_directory => val[i].is_directory
                       /\ val[i].is_directory = val[j].is_directory =>
                              NotBehind(val[i].name, val[j].name)

\* read_dir yielded the file "h", the hidden ".h" and the directory "Ze";
\* the answer is the directory, then the file
C17_Witness ==
    /\ entries = <<DirEntry(<<"h">>, FALSE), DirEntry(<<".", "h">>, TRUE),
                   DirEntry(<<"Z", "e">>, TRUE)>>
    /\ listing.res = Ok(<<[name |-> <<"Z", "e">>, is_directory |-> TRUE],
                          [name |-> <<"h">>, is_directory |-> FALSE]>>)

\* C18: a step of set_language(lang) sets the language of AppState to
\* normalize_language(lang) and changes nothing else: the menu, the
\* settings file, recent_files and pending_open_files stay as they are and
\* no event is emitted.
C18_SetLanguageOnly ==
    [][\A lang \in LangCodes :
          SetLanguage(lang) =>
              /\ language' = normalize_language(lang)
              /\ language' \in {"en", "zh"}
              /\ UNCHANGED <<menu, settings, recent_files, pending_open_files>>
              /\ UNCHANGED <<emitted, emitting>>]_vars

\* set_language has set the language to "zh" while the menu and the
\* settings file still say "en"
C18_Witness ==
    /\ <<"set_language", "language">> \in stateAccess
    /\ language = "zh"
    /\ menu = "en"
    /\ settings = Stored("en")
    /\ lastCmd.cmd = "save_language_preference"

=============================================================================
